---- MODULE Spec2Model ----
(***************************************************************************)
(* Model of src/app.py: class LoanPricingCalculator (get_rating_from_pd,   *)
(* calculate_break_even_rate, generate_amortization_schedule,              *)
(* generate_custom_schedule) and the custom-schedule call site.            *)
(*                                                                         *)
(* Python floats are IEEE-754 binary floating point numbers: every         *)
(* arithmetic operation returns the exact result rounded to the nearest    *)
(* representable value (ties to even).  The model keeps exactly that       *)
(* semantics with a significand of MantBits bits (24, as in single         *)
(* precision) instead of 53 and an unbounded exponent: a float is <<m, e>> *)
(* with value m * 2^e, m = 0 and e = 0 for zero, and                       *)
(* 2^(MantBits-1) <= |m| < 2^MantBits otherwise.  All intermediate         *)
(* integers stay below 2^31.                                               *)
(***************************************************************************)
EXTENDS Integers, Sequences, FiniteSets, TLC

\* ------------------------------------------------------------------------
\* Floating point arithmetic (Python float)
\* ------------------------------------------------------------------------

\* Width of the significand of the modelled floats.
MantBits == 24

Pow2(n) == 2 ^ n

Abs(n) == IF n < 0 THEN -n ELSE n

Sgn(n) == IF n < 0 THEN -1 ELSE IF n = 0 THEN 0 ELSE 1

\* The number of bits of n, for 0 <= n < 2^31: the k with 2^(k-1) <= n < 2^k
\* (0 for n = 0), found by bisection.
BitLen(n) ==
    IF n < 32768
    THEN IF n < 128
         THEN IF n < 8
              THEN IF n < 2
                   THEN IF n < 1
                        THEN 0
                        ELSE 1
                   ELSE IF n < 4
                        THEN 2
                        ELSE 3
              ELSE IF n < 32
                   THEN IF n < 16
                        THEN 4
                        ELSE 5
                   ELSE IF n < 64
                        THEN 6
                        ELSE 7
         ELSE IF n < 2048
              THEN IF n < 512
                   THEN IF n < 256
                        THEN 8
                        ELSE 9
                   ELSE IF n < 1024
                        THEN 10
                        ELSE 11
              ELSE IF n < 8192
                   THEN IF n < 4096
                        THEN 12
                        ELSE 13
                   ELSE IF n < 16384
                        THEN 14
                        ELSE 15
    ELSE IF n < 8388608
         THEN IF n < 524288
              THEN IF n < 131072
                   THEN IF n < 65536
                        THEN 16
                        ELSE 17
                   ELSE IF n < 262144
                        THEN 18
                        ELSE 19
              ELSE IF n < 2097152
                   THEN IF n < 1048576
                        THEN 20
                        ELSE 21
                   ELSE IF n < 4194304
                        THEN 22
                        ELSE 23
         ELSE IF n < 134217728
              THEN IF n < 33554432
                   THEN IF n < 16777216
                        THEN 24
                        ELSE 25
                   ELSE IF n < 67108864
                        THEN 26
                        ELSE 27
              ELSE IF n < 536870912
                   THEN IF n < 268435456
                        THEN 28
                        ELSE 29
                   ELSE IF n < 1073741824
                        THEN 30
                        ELSE 31

Zero == <<0, 0>>

One == <<Pow2(MantBits - 1), -(MantBits - 1)>>

\* s * q * 2^e with q of at most MantBits + 1 bits after rounding up.
RoundCarry(s, q, e) ==
    IF q = Pow2(MantBits) THEN <<s * Pow2(MantBits - 1), e + 1>> ELSE <<s * q, e>>

\* Round half to even: q the kept bits, r the bits cut off, half their
\* midpoint, st = 1 when nonzero bits lie below those of r.
RoundCut(s, q, r, half, st, e) ==
    RoundCarry(s,
               IF r > half \/ (r = half /\ (st = 1 \/ q % 2 = 1)) THEN q + 1 ELSE q,
               e)

\* a of L bits.
RoundBits(s, a, st, e, L) ==
    IF L <= MantBits
    THEN <<s * a * Pow2(MantBits - L), e - (MantBits - L)>>
    ELSE RoundCut(s, a \div Pow2(L - MantBits), a % Pow2(L - MantBits),
                  Pow2(L - MantBits - 1), st, e + (L - MantBits))

\* The float nearest to s * (a + d) * 2^e, for a sign s, an integer a >= 0
\* and a fraction 0 <= d < 1 that is nonzero exactly when st = 1 (then a has
\* more than MantBits bits).
RoundSticky(s, a, st, e) ==
    IF a = 0 THEN Zero ELSE RoundBits(s, a, st, e, BitLen(a))

\* float(n) for a Python int n.
FromInt(n) == RoundSticky(Sgn(n), Abs(n), 0, 0)

FNeg(x) == <<-x[1], x[2]>>

FIsZero(x) == x[1] = 0

\* The significands are multiplied in two limbs of HalfBits bits.
HalfBits == (MantBits + 1) \div 2

\* The product hi * 2^(2 * HalfBits) + lo, cut to its leading bits: the bits
\* of lo below position MantBits - 3 only set the sticky bit.
MulCut(s, hi, lo, e) ==
    RoundSticky(s,
                hi * Pow2(2 * HalfBits - (MantBits - 3)) + lo \div Pow2(MantBits - 3),
                IF lo % Pow2(MantBits - 3) = 0 THEN 0 ELSE 1,
                e + (MantBits - 3))

\* a1 * b1 * 2^(2h) + mid * 2^h + low, low being the lower limbs' product
\* plus the low half of mid shifted.
MulCarry(s, top, mid, low, e) ==
    MulCut(s, top + mid \div Pow2(HalfBits) + low \div Pow2(2 * HalfBits),
           low % Pow2(2 * HalfBits), e)

MulLimbs(s, a1, a0, b1, b0, e) ==
    MulCarry(s, a1 * b1, a1 * b0 + a0 * b1,
             ((a1 * b0 + a0 * b1) % Pow2(HalfBits)) * Pow2(HalfBits) + a0 * b0, e)

\* x * y
FMul(x, y) ==
    IF x[1] = 0 \/ y[1] = 0 THEN Zero
    ELSE MulLimbs(Sgn(x[1]) * Sgn(y[1]),
                  Abs(x[1]) \div Pow2(HalfBits), Abs(x[1]) % Pow2(HalfBits),
                  Abs(y[1]) \div Pow2(HalfBits), Abs(y[1]) % Pow2(HalfBits),
                  x[2] + y[2])

\* Long division: q the quotient so far, r the remainder (r < den), bits the
\* number of quotient bits still to produce, at most 30 - MantBits at a time.
RECURSIVE DivSteps(_, _, _, _, _, _)
DivChunk(s, q, r, den, bits, e, c) ==
    DivSteps(s, q * Pow2(c) + (r * Pow2(c)) \div den, (r * Pow2(c)) % den, den,
             bits - c, e)

DivSteps(s, q, r, den, bits, e) ==
    IF bits = 0 THEN RoundSticky(s, q, IF r = 0 THEN 0 ELSE 1, e)
    ELSE DivChunk(s, q, r, den, bits, e,
                  IF bits < 30 - MantBits THEN bits ELSE 30 - MantBits)

\* x / y for y # 0 (the quotient carries two guard bits and a sticky bit).
FDiv(x, y) ==
    IF x[1] = 0 THEN Zero
    ELSE DivSteps(Sgn(x[1]) * Sgn(y[1]), Abs(x[1]) \div Abs(y[1]),
                  Abs(x[1]) % Abs(y[1]), Abs(y[1]), MantBits + 2,
                  x[2] - y[2] - (MantBits + 2))

\* The float nearest to (sum + d) * 2^e for a signed integer sum and a
\* fraction 0 <= d < 1, nonzero exactly when st = 1.
SignedRound(sum, st, e) ==
    IF sum >= 0 THEN RoundSticky(1, sum, st, e)
    ELSE IF st = 1 THEN RoundSticky(-1, -sum - 1, 1, e)
    ELSE RoundSticky(-1, -sum, 0, e)

\* hi + lo for nonzero floats with hi[2] >= lo[2], on three guard bits: lo
\* is shifted right by the difference d of the exponents, the bits shifted
\* out setting the sticky bit.
AddShifted(hi, lo, d) ==
    IF d > MantBits + 4
    THEN SignedRound(hi[1] * 8 + (IF lo[1] > 0 THEN 0 ELSE -1), 1, hi[2] - 3)
    ELSE SignedRound(hi[1] * 8 + (lo[1] * 8) \div Pow2(d),
                     IF (lo[1] * 8) % Pow2(d) = 0 THEN 0 ELSE 1, hi[2] - 3)

\* x + y
FAdd(x, y) ==
    IF x[1] = 0 THEN y
    ELSE IF y[1] = 0 THEN x
    ELSE IF x[2] >= y[2] THEN AddShifted(x, y, x[2] - y[2])
    ELSE AddShifted(y, x, y[2] - x[2])

\* x - y
FSub(x, y) == FAdd(x, FNeg(y))

\* x < y, x <= y, x > y: the sign of the rounded difference is the sign of
\* the exact one.
FLt(x, y) == FSub(x, y)[1] < 0

FLe(x, y) == FSub(x, y)[1] <= 0

FGt(x, y) == FSub(x, y)[1] > 0

\* max(0, x) as the code writes it: the int 0 when x is not greater than 0.
FMax0(x) == IF x[1] > 0 THEN x ELSE Zero

\* The float written as the decimal literal a / b (a, b small integers).
FromRat(a, b) == FDiv(FromInt(a), FromInt(b))

\* x ** n for an integral n >= 0, by repeated multiplication, each product
\* rounded (the library's pow rounds once: the two agree to within a few units
\* in the last place).
RECURSIVE FPowNat(_, _)
FPowNat(x, n) == IF n = 0 THEN One ELSE FMul(FPowNat(x, n - 1), x)

\* int(x): truncation toward zero.
Trunc(x) ==
    IF x[2] >= 0 THEN x[1] * Pow2(x[2])
    ELSE IF -x[2] >= 31 THEN 0
    ELSE Sgn(x[1]) * (Abs(x[1]) \div Pow2(-x[2]))

\* ------------------------------------------------------------------------
\* State
\* ------------------------------------------------------------------------

VARIABLES
    risk_free_rate,   \* LoanPricingCalculator.risk_free_rate
    pc,               \* "idle": no call in progress; "done": a call returned
    op,               \* the operation last called
    args,             \* its arguments
    result,           \* what it returned or raised: [status, value]
    clock             \* datetime.now(), in ticks

vars == <<risk_free_rate, pc, op, args, result, clock>>

NoArgs == [none |-> TRUE]

Returned(v) == [status |-> "ok", value |-> v]

Raised(exc) == [status |-> exc, value |-> NoArgs]

\* ------------------------------------------------------------------------
\* get_rating_from_pd
\* ------------------------------------------------------------------------

\* rating_ranges: (label, min_pd, max_pd), PD bounds in units of 1/10000.
rating_ranges ==
    << <<"AAA", 0, 15>>, <<"AA", 15, 35>>, <<"A", 35, 75>>, <<"BBB", 75, 175>>,
       <<"BB", 175, 375>>, <<"B", 375, 750>>, <<"CCC", 750, 10000>> >>

\* The float of a decimal literal given in units of 1/10000.
Lit4(k) == FromRat(k, 10000)

\* The scan with the comparison "min_pd < pd_value <= max_pd": a boundary
\* would fall into the bucket below it.
RECURSIVE RatingScanClosed(_, _)
RatingScanClosed(pd_value, i) ==
    IF i > Len(rating_ranges) THEN "CCC"
    ELSE IF FLt(Lit4(rating_ranges[i][2]), pd_value)
            /\ FLe(pd_value, Lit4(rating_ranges[i][3]))
         THEN rating_ranges[i][1]
         ELSE RatingScanClosed(pd_value, i + 1)

\* for rating, min_pd, max_pd in rating_ranges: if min_pd <= pd_value < max_pd
RECURSIVE RatingScan(_, _)
RatingScan(pd_value, i) ==
    IF i > Len(rating_ranges) THEN "CCC"
    ELSE IF FLe(Lit4(rating_ranges[i][2]), pd_value)
            /\ FLt(pd_value, Lit4(rating_ranges[i][3]))
         THEN rating_ranges[i][1]
         ELSE RatingScan(pd_value, i + 1)

get_rating_from_pd(pd_value) == RatingScan(pd_value, 1)

\* ------------------------------------------------------------------------
\* calculate_break_even_rate
\* ------------------------------------------------------------------------

\* x ** n for a float x and an integral exponent n; "ZeroDivisionError" when
\* 0.0 is raised to a negative power.
\* (duration_years is taken in whole years.)
PowRaises(x, n) == n < 0 /\ FIsZero(x)

FPow(x, n) == IF n >= 0 THEN FPowNat(x, n) ELSE FDiv(One, FPowNat(x, -n))

\* The sum that leaves the operational spread out.
BreakEvenSumNoOperational(market_rate, financial_spread, operational_spread, credit_spread) ==
    FAdd(FAdd(market_rate, financial_spread), credit_spread)

\* market_rate + financial_spread + operational_spread + credit_spread
BreakEvenSum(market_rate, financial_spread, operational_spread, credit_spread) ==
    FAdd(FAdd(FAdd(market_rate, financial_spread), operational_spread), credit_spread)

\* The pricing whose cumulative PD is the survival probability
\* (1 - pd_1year) ** duration_years, the "1 -" in front of it forgotten.
calculate_break_even_rate_survival(rfr, loan_amount, duration_years, pd_1year, operational_costs_pct, funding_spread, equity_cost, capital_ratio, lgd_rate) ==
    IF PowRaises(FSub(One, pd_1year), duration_years) \/ loan_amount = 0
    THEN Raised("ZeroDivisionError")
    ELSE LET cumulative_pd == FPow(FSub(One, pd_1year), duration_years)
             expected_loss == FMul(FMul(FromInt(loan_amount), cumulative_pd), lgd_rate)
             financial_spread ==
                 FAdd(FMul(capital_ratio, equity_cost),
                      FMul(FSub(One, capital_ratio), funding_spread))
             market_rate == FAdd(rfr, FMul(FromInt(duration_years), FromRat(1, 1000)))
         IN  Returned([market_rate        |-> market_rate,
                       financial_spread   |-> financial_spread,
                       operational_spread |-> operational_costs_pct,
                       credit_spread      |-> FDiv(expected_loss, FromInt(loan_amount)),
                       break_even_rate    |->
                           FAdd(FAdd(FAdd(market_rate, financial_spread),
                                     operational_costs_pct),
                                FDiv(expected_loss, FromInt(loan_amount))),
                       expected_loss      |-> expected_loss,
                       cumulative_pd      |-> cumulative_pd])

calculate_break_even_rate(rfr, loan_amount, duration_years, pd_1year, operational_costs_pct, funding_spread, equity_cost, capital_ratio, lgd_rate) ==
    IF PowRaises(FSub(One, pd_1year), duration_years) \/ loan_amount = 0
    THEN Raised("ZeroDivisionError")
    ELSE LET cumulative_pd == FSub(One, FPow(FSub(One, pd_1year), duration_years))
             expected_loss == FMul(FMul(FromInt(loan_amount), cumulative_pd), lgd_rate)
             expected_loss_rate == FDiv(expected_loss, FromInt(loan_amount))
             financial_spread ==
                 FAdd(FMul(capital_ratio, equity_cost),
                      FMul(FSub(One, capital_ratio), funding_spread))
             operational_spread == operational_costs_pct
             credit_spread == expected_loss_rate
             market_rate == FAdd(rfr, FMul(FromInt(duration_years), FromRat(1, 1000)))
             break_even_rate ==
                 BreakEvenSum(market_rate, financial_spread, operational_spread,
                              credit_spread)
         IN  Returned([market_rate        |-> market_rate,
                       financial_spread   |-> financial_spread,
                       operational_spread |-> operational_spread,
                       credit_spread      |-> credit_spread,
                       break_even_rate    |-> break_even_rate,
                       expected_loss      |-> expected_loss,
                       cumulative_pd      |-> cumulative_pd])

\* ------------------------------------------------------------------------
\* generate_amortization_schedule (standard structures)
\* ------------------------------------------------------------------------

\* Number of clock ticks in one day: datetime.now() is finer than a day.
DayTicks == 2

\* payment_frequency -> <<freq_per_year, days_between>>
Frequency(payment_frequency) ==
    CASE payment_frequency = "Mensile"     -> <<12, 30>>
      [] payment_frequency = "Trimestrale" -> <<4, 90>>
      [] payment_frequency = "Semestrale"  -> <<2, 180>>
      [] payment_frequency = "Annuale"     -> <<1, 365>>
      [] OTHER                             -> <<12, 30>>

\* total_payments = int(duration_years * freq_per_year)
TotalPayments(duration_years, freq_per_year) ==
    Trunc(FMul(duration_years, FromInt(freq_per_year)))

\* The level payment of balance over n periods at the periodic rate r:
\* balance * (r * (1 + r)**n) / ((1 + r)**n - 1) when r > 0, else balance / n.
\* Raises ZeroDivisionError when (1 + r)**n - 1 is 0.0.
AnnuityRaises(r, n) == FGt(r, Zero) /\ FIsZero(FSub(FPowNat(FAdd(One, r), n), One))

AnnuityPayment(balance, r, n) ==
    IF FGt(r, Zero)
    THEN FDiv(FMul(balance, FMul(r, FPowNat(FAdd(One, r), n))),
              FSub(FPowNat(FAdd(One, r), n), One))
    ELSE FDiv(balance, FromInt(n))

\* A row of the schedule.
Row(payment_num, payment_date, payment, principal, interest, balance) ==
    [Payment_Number    |-> payment_num,
     Date              |-> payment_date,
     Payment           |-> payment,
     Principal         |-> principal,
     Interest          |-> interest,
     Remaining_Balance |-> balance]

\* What one iteration of the loop leaves: the rows it appended and the
\* remaining_balance it carries to the next iteration.
Step(rows, balance) == [status |-> "ok", rows |-> rows, balance |-> balance]

\* remaining_balance -= principal_payment; schedule.append({...,
\* 'Remaining_Balance': max(0, remaining_balance)})
AppendAmortizing(payment_num, payment_date, monthly_payment, principal_payment, interest_payment, balance) ==
    Step(<<Row(payment_num, payment_date, monthly_payment, principal_payment,
               interest_payment, FMax0(balance))>>, balance)

\* principal_payment = monthly_payment - interest_payment
AmortizingRow(payment_num, payment_date, monthly_payment, interest_payment, remaining_balance) ==
    AppendAmortizing(payment_num, payment_date, monthly_payment,
                     FSub(monthly_payment, interest_payment), interest_payment,
                     FSub(remaining_balance, FSub(monthly_payment, interest_payment)))

\* The variable rate taken as the contractual periodic rate plus the spread.
VariableRateContractual(c) ==
    FAdd(c.periodic_rate, FDiv(c.variable_spread, FromInt(c.freq_per_year)))

\* (self.risk_free_rate + variable_spread) / freq_per_year
VariableRate(c) ==
    FDiv(FAdd(c.risk_free_rate, c.variable_spread), FromInt(c.freq_per_year))

\* loan_type == "variable_amortizing": the payment is recomputed from the
\* balance and the periods left.
VariableAmortizingRow(payment_num, payment_date, remaining_balance, periodic_variable_rate, left) ==
    IF AnnuityRaises(periodic_variable_rate, left)
    THEN [status |-> "ZeroDivisionError"]
    ELSE AmortizingRow(payment_num, payment_date,
                       AnnuityPayment(remaining_balance, periodic_variable_rate, left),
                       FMul(remaining_balance, periodic_variable_rate),
                       remaining_balance)

\* The bullet row under the test "payment_num <= total_payments": the
\* principal would never be repaid.
BulletRowInterestOnly(payment_num, payment_date, total_payments, loan, interest_payment, remaining_balance) ==
    Step(<<Row(payment_num, payment_date, interest_payment, Zero,
               interest_payment, loan)>>, remaining_balance)

\* loan_type in ["fixed_bullet", "variable_bullet"]
BulletRow(payment_num, payment_date, total_payments, loan, interest_payment, remaining_balance) ==
    IF payment_num < total_payments
    THEN Step(<<Row(payment_num, payment_date, interest_payment, Zero,
                    interest_payment, loan)>>, remaining_balance)
    ELSE Step(<<Row(payment_num, payment_date, FAdd(interest_payment, loan), loan,
                    interest_payment, Zero)>>, remaining_balance)

\* One iteration of the loop over payment_num.  c holds the values fixed
\* before the loop; now is the reading of datetime.now() in this iteration.
PaymentRow(c, payment_num, payment_date, remaining_balance) ==
    IF c.loan_type = "fixed_amortizing" THEN
        IF AnnuityRaises(c.periodic_rate, c.total_payments)
        THEN [status |-> "ZeroDivisionError"]
        ELSE AmortizingRow(payment_num, payment_date,
                           AnnuityPayment(FromInt(c.loan_amount), c.periodic_rate,
                                          c.total_payments),
                           FMul(remaining_balance, c.periodic_rate),
                           remaining_balance)
    ELSE IF c.loan_type = "variable_amortizing" THEN
        VariableAmortizingRow(payment_num, payment_date, remaining_balance,
                              VariableRate(c), c.total_payments - payment_num + 1)
    ELSE IF c.loan_type \in {"fixed_bullet", "variable_bullet"} THEN
        BulletRow(payment_num, payment_date, c.total_payments, FromInt(c.loan_amount),
                  FMul(FromInt(c.loan_amount),
                       IF c.loan_type = "fixed_bullet" THEN c.periodic_rate
                       ELSE VariableRate(c)),
                  remaining_balance)
    ELSE Step(<< >>, remaining_balance)

\* for payment_num in range(1, total_payments + 1):
\*     payment_date = datetime.now() + timedelta(days=payment_num * days_between)
RECURSIVE PaymentLoop(_, _, _, _, _)
RECURSIVE LoopNext(_, _, _, _, _)
PaymentLoop(c, nows, payment_num, remaining_balance, schedule) ==
    IF payment_num > c.total_payments THEN Returned(schedule)
    ELSE LoopNext(c, nows, payment_num, schedule,
                  PaymentRow(c, payment_num,
                             nows[payment_num] + payment_num * c.days_between * DayTicks,
                             remaining_balance))

LoopNext(c, nows, payment_num, schedule, step) ==
    IF step.status # "ok" THEN Raised(step.status)
    ELSE PaymentLoop(c, nows, payment_num + 1, step.balance, schedule \o step.rows)

\* The standard path of generate_amortization_schedule (lines 90-192); nows[k]
\* is what datetime.now() returns in iteration k.
StandardSchedule(rfr, loan_amount, annual_rate, duration_years, payment_frequency, loan_type, variable_spread, nows) ==
    LET freq_per_year == Frequency(payment_frequency)[1]
        c == [loan_amount     |-> loan_amount,
              loan_type       |-> loan_type,
              risk_free_rate  |-> rfr,
              variable_spread |-> variable_spread,
              freq_per_year   |-> freq_per_year,
              days_between    |-> Frequency(payment_frequency)[2],
              total_payments  |-> TotalPayments(duration_years, freq_per_year),
              periodic_rate   |-> FDiv(annual_rate, FromInt(freq_per_year))]
    IN  PaymentLoop(c, nows, 1, FromInt(loan_amount), << >>)

\* ------------------------------------------------------------------------
\* generate_custom_schedule and its call site
\* ------------------------------------------------------------------------

\* A DataFrame of custom entries: rows in positional order, each with its
\* index label, its 'Date' (a midnight, in days) and its 'Capitale' (in tenths
\* of a euro); the optional column 'Saldo_Iniziale' (the value it holds in
\* every row, in tenths of a euro).
\* present = FALSE stands for custom_schedule = None.
NoFrame == [present |-> FALSE, rows |-> << >>, has_saldo |-> FALSE, saldo |-> 0]

\* pd.DataFrame({...}) built from the entries as typed: labels 0, 1, 2, ...
DataFrame(entries, has_saldo, saldo) ==
    [present   |-> TRUE,
     rows      |-> [j \in 1..Len(entries) |->
                       [label |-> j - 1, Date |-> entries[j].Date,
                        Capitale |-> entries[j].Capitale]],
     has_saldo |-> has_saldo,
     saldo     |-> saldo]

\* The results edited_schedule.sort_values('Date') may return: the rows in
\* ascending date order, each keeping its label; rows with equal dates in any
\* order (the default sort is not stable).
sort_values(frame) ==
    LET n == Len(frame.rows)
        Perms == {f \in [1..n -> 1..n] : \A a, b \in 1..n : a # b => f[a] # f[b]}
    IN  {[frame EXCEPT !.rows = [j \in 1..n |-> frame.rows[f[j]]]] :
            f \in {g \in Perms :
                     \A a, b \in 1..n :
                        a < b => frame.rows[g[a]].Date <= frame.rows[g[b]].Date}}

\* The float of an amount given in tenths of a euro.
Amount(k) == FromRat(k, 10)

\* sum(custom_schedule['Capitale']): the amounts of rows 1..j added from the
\* left, starting from 0.
RECURSIVE SumCapitale(_, _)
SumCapitale(rows, j) ==
    IF j = 0 THEN Zero ELSE FAdd(SumCapitale(rows, j - 1), Amount(rows[j].Capitale))

\* The row of one entry with 'Remaining_Balance': remaining_balance, the
\* max(0, .) left out.
CustomRowUnclamped(i, row, days_from_start, outstanding_amount, annual_rate) ==
    Row(i + 1, row.Date * DayTicks,
        FAdd(Amount(row.Capitale),
             FMul(FMul(outstanding_amount, annual_rate),
                  FDiv(FromInt(days_from_start), FromInt(365)))),
        Amount(row.Capitale),
        FMul(FMul(outstanding_amount, annual_rate),
             FDiv(FromInt(days_from_start), FromInt(365))),
        FSub(outstanding_amount, Amount(row.Capitale)))

\* The row of one entry: interest pro rata temporis on the outstanding amount.
CustomRow(i, row, days_from_start, outstanding_amount, annual_rate) ==
    Row(i + 1, row.Date * DayTicks,
        FAdd(Amount(row.Capitale),
             FMul(FMul(outstanding_amount, annual_rate),
                  FDiv(FromInt(days_from_start), FromInt(365)))),
        Amount(row.Capitale),
        FMul(FMul(outstanding_amount, annual_rate),
             FDiv(FromInt(days_from_start), FromInt(365))),
        FMax0(FSub(outstanding_amount, Amount(row.Capitale))))

\* for i, row in custom_schedule.iterrows(): j is the position of the row,
\* i = row.label the index label iterrows() yields.  custom_schedule.iloc[i-1]
\* is the row at position i-1, schedule[i-1] the (i-1)-th row appended.
RECURSIVE CustomLoop(_, _, _, _, _)
RECURSIVE CustomNext(_, _, _, _, _, _, _)
CustomLoop(custom_schedule, annual_rate, now, j, schedule) ==
    IF j > Len(custom_schedule.rows) THEN Returned(schedule)
    ELSE CustomNext(custom_schedule, annual_rate, now, j, schedule,
                    custom_schedule.rows, custom_schedule.rows[j].label)

CustomNext(custom_schedule, annual_rate, now, j, schedule, rows, i) ==
    IF i # 0 /\ (i > Len(rows) \/ i > Len(schedule)) THEN Raised("IndexError")
    ELSE CustomLoop(custom_schedule, annual_rate, now, j + 1,
             Append(schedule,
                 IF i = 0
                 THEN CustomRow(i, rows[j], (rows[j].Date * DayTicks - now) \div DayTicks,
                                IF custom_schedule.has_saldo
                                THEN Amount(custom_schedule.saldo)
                                ELSE SumCapitale(rows, Len(rows)),
                                annual_rate)
                 ELSE CustomRow(i, rows[j], rows[j].Date - rows[i].Date,
                                schedule[i].Remaining_Balance, annual_rate)))

generate_custom_schedule(custom_schedule, annual_rate, now) ==
    CustomLoop(custom_schedule, annual_rate, now, 1, << >>)

generate_amortization_schedule(rfr, loan_amount, annual_rate, duration_years, payment_frequency, loan_type, variable_spread, custom_schedule, nows) ==
    IF loan_type = "custom" /\ custom_schedule.present
    THEN generate_custom_schedule(custom_schedule, annual_rate, nows[1])
    ELSE StandardSchedule(rfr, loan_amount, annual_rate, duration_years,
                          payment_frequency, loan_type, variable_spread, nows)

\* ------------------------------------------------------------------------
\* Inputs
\* ------------------------------------------------------------------------

\* PD values handed to get_rating_from_pd, in units of 1/10000.
RatingPds ==
    {-10, 0, 1, 14, 15, 16, 34, 35, 36, 74, 75, 76, 174, 175, 176, 374, 375, 376,
     749, 750, 751, 5000, 9999, 10000, 15000}

\* Arguments of calculate_break_even_rate; rates in units of 1/1000.
LoanAmounts == {-1000, 0, 1000, 100000}

PricingDurations == {-1, 0, 1, 3, 10}

Pd1Years == {-100, 0, 10, 500, 1000, 1500}

OperationalCosts == {0, 14}

FundingSpreads == {0, 15}

EquityCosts == {120}

CapitalRatios == {-100, 120, 1000, 1500}

LgdRates == {-100, 450, 1000, 1500}

Lit3(k) == FromRat(k, 1000)

\* Arguments of generate_amortization_schedule.
ScheduleLoans == {-1000, 0, 1000, 100000}

\* A rate of one and a half units in the last place of 1.0.
TinyRate == <<3 * Pow2(MantBits - 2), -(2 * MantBits - 2)>>

AnnualRates == {Zero, Lit3(50), Lit3(120), TinyRate}

\* duration_years in quarters of a year: -1, 0, 0.25, 0.5, 1 and 2.75 years.
ScheduleQuarters == {-4, 0, 1, 2, 4, 11}

Frequencies == {"Mensile", "Trimestrale", "Semestrale", "Annuale", "Custom"}

LoanTypes == {"fixed_amortizing", "variable_amortizing", "fixed_bullet",
              "variable_bullet", "custom"}

\* 0, 0.02 and -0.03 (the variable rate is then 0).
VariableSpreads == {Zero, Lit3(20), FNeg(Lit3(30))}

\* The longest schedule generated.
MaxPeriods == 12

\* Custom entries: dates in days, amounts in tenths of a euro (1000 euro and
\* 0.10 euro).
MaxEntries == 3

EntryDates == {30, 60}

EntryAmounts == {10000, 1}

Entries == [Date : EntryDates, Capitale : EntryAmounts]

EntryLists == UNION {[1..n -> Entries] : n \in 0..MaxEntries}

CustomRates == {Zero, Lit3(40)}

\* 'Saldo_Iniziale': absent, or present with one of these values.
Saldi == {10000, 40000}

\* The iteration before whose clock reading the clock advances (0: never).
TickAts == {0, 2}

\* The clock runs from 0 to MaxClock ticks.
MaxClock == 1

\* ------------------------------------------------------------------------
\* Operations
\* ------------------------------------------------------------------------

Init ==
    /\ risk_free_rate = FromRat(3, 100)
    /\ pc = "idle"
    /\ op = "init"
    /\ args = NoArgs
    /\ result = Returned(NoArgs)
    /\ clock = 0

CallRating ==
    /\ pc = "idle"
    /\ \E k \in RatingPds :
          /\ args' = [pd |-> k]
          /\ result' = Returned([rating |-> get_rating_from_pd(Lit4(k))])
    /\ op' = "get_rating_from_pd"
    /\ pc' = "done"
    /\ UNCHANGED <<risk_free_rate, clock>>

\* A pricing call that keeps the market rate it computed as the calculator's
\* risk-free rate: hidden state the next pricing would depend on.
CallBreakEvenStoring ==
    /\ pc = "idle"
    /\ \E la \in LoanAmounts, d \in PricingDurations, p \in Pd1Years,
          oc \in OperationalCosts, fs \in FundingSpreads, ec \in EquityCosts,
          cr \in CapitalRatios, lg \in LgdRates :
          /\ args' = [loan_amount |-> la, duration_years |-> d, pd_1year |-> p,
                      operational_costs_pct |-> oc, funding_spread |-> fs,
                      equity_cost |-> ec, capital_ratio |-> cr, lgd_rate |-> lg]
          /\ result' = calculate_break_even_rate(risk_free_rate, la, d, Lit3(p),
                           Lit3(oc), Lit3(fs), Lit3(ec), Lit3(cr), Lit3(lg))
          /\ risk_free_rate' = FAdd(risk_free_rate, FMul(FromInt(d), FromRat(1, 1000)))
    /\ op' = "calculate_break_even_rate"
    /\ pc' = "done"
    /\ UNCHANGED clock

CallBreakEven ==
    /\ pc = "idle"
    /\ \E la \in LoanAmounts, d \in PricingDurations, p \in Pd1Years,
          oc \in OperationalCosts, fs \in FundingSpreads, ec \in EquityCosts,
          cr \in CapitalRatios, lg \in LgdRates :
          /\ args' = [loan_amount |-> la, duration_years |-> d, pd_1year |-> p,
                      operational_costs_pct |-> oc, funding_spread |-> fs,
                      equity_cost |-> ec, capital_ratio |-> cr, lgd_rate |-> lg]
          /\ result' = calculate_break_even_rate(risk_free_rate, la, d, Lit3(p),
                           Lit3(oc), Lit3(fs), Lit3(ec), Lit3(cr), Lit3(lg))
    /\ op' = "calculate_break_even_rate"
    /\ pc' = "done"
    /\ UNCHANGED <<risk_free_rate, clock>>

\* A standard plan: custom_schedule_df is None.  The clock may advance by one
\* tick while the loop runs, right before iteration tickAt reads it (0: it
\* does not advance; before iteration 1 is a Tick before the call).
CallSchedule ==
    /\ pc = "idle"
    /\ \E la \in ScheduleLoans, ar \in AnnualRates, q \in ScheduleQuarters,
          pf \in Frequencies, lt \in LoanTypes, vs \in VariableSpreads,
          tickAt \in TickAts :
          LET n    == TotalPayments(FromRat(q, 4), Frequency(pf)[1])
              nows == [k \in 1..n |-> IF tickAt # 0 /\ k >= tickAt
                                      THEN clock + 1 ELSE clock]
          IN  /\ n <= MaxPeriods
              /\ tickAt <= n
              /\ tickAt # 0 => clock < MaxClock
              /\ args' = [loan_amount |-> la, annual_rate |-> ar, quarters |-> q,
                          payment_frequency |-> pf, loan_type |-> lt,
                          variable_spread |-> vs, tickAt |-> tickAt, now |-> clock]
              /\ result' = generate_amortization_schedule(
                               risk_free_rate, la, ar, FromRat(q, 4), pf, lt, vs,
                               NoFrame, nows)
              /\ clock' = IF tickAt # 0 THEN clock + 1 ELSE clock
    /\ op' = "generate_amortization_schedule"
    /\ pc' = "done"
    /\ UNCHANGED risk_free_rate

\* A custom plan: the DataFrame of the entries as typed, either handed to the
\* generator as it is or first sorted by the call site (lines 441-449).
CallCustomSchedule ==
    /\ pc = "idle"
    /\ \E entries \in EntryLists, ar \in CustomRates, sorted \in BOOLEAN,
          has_saldo \in BOOLEAN, saldo \in Saldi :
          /\ has_saldo \/ saldo = 10000
          /\ LET built == DataFrame(entries, has_saldo, saldo)
             IN  \E frame \in (IF sorted THEN sort_values(built) ELSE {built}) :
                    /\ args' = [entries |-> entries, annual_rate |-> ar,
                                sorted |-> sorted, frame |-> frame, now |-> clock]
                    /\ result' = generate_amortization_schedule(
                                     risk_free_rate, 1000, ar, One, "Custom",
                                     "custom", Zero, frame, <<clock>>)
    /\ op' = "generate_custom_schedule"
    /\ pc' = "done"
    /\ UNCHANGED <<risk_free_rate, clock>>

\* Time passes between two calls.
Tick ==
    /\ pc = "idle"
    /\ clock < MaxClock
    /\ clock' = clock + 1
    /\ UNCHANGED <<risk_free_rate, pc, op, args, result>>

\* The caller takes the result; the calculator is ready for the next call.
Return ==
    /\ pc = "done"
    /\ pc' = "idle"
    /\ op' = "init"
    /\ args' = NoArgs
    /\ result' = Returned(NoArgs)
    /\ UNCHANGED <<risk_free_rate, clock>>

Next == CallRating \/ CallBreakEven \/ CallSchedule \/ CallCustomSchedule
           \/ Tick \/ Return

Spec == Init /\ [][Next]_vars

\* The pricing operations alone.
NextPricing == CallRating \/ CallBreakEven \/ Return

SpecPricing == Init /\ [][NextPricing]_vars

\* The standard plans alone.
NextSchedule == CallSchedule \/ Tick \/ Return

SpecSchedule == Init /\ [][NextSchedule]_vars

\* Ratings, pricings and standard plans in any order, time passing.
NextStandard == CallRating \/ CallBreakEven \/ CallSchedule \/ Tick \/ Return

SpecStandard == Init /\ [][NextStandard]_vars

\* The custom plans alone.
NextCustom == CallCustomSchedule \/ Tick \/ Return

SpecCustom == Init /\ [][NextCustom]_vars

\* ------------------------------------------------------------------------
\* Properties
\* ------------------------------------------------------------------------

BreakEvenDone == pc = "done" /\ op = "calculate_break_even_rate"

RatingDone == pc = "done" /\ op = "get_rating_from_pd"

ScheduleDone == pc = "done" /\ op = "generate_amortization_schedule"

CustomDone == pc = "done" /\ op = "generate_custom_schedule"

\* C1: whenever calculate_break_even_rate returns, the break_even_rate it
\* reports is market_rate + financial_spread + operational_spread +
\* credit_spread of the same result, summed in that order, with no floor or cap.
C1_BreakEvenIsSum ==
    BreakEvenDone /\ result.status = "ok" =>
        result.value.break_even_rate =
            FAdd(FAdd(FAdd(result.value.market_rate, result.value.financial_spread),
                      result.value.operational_spread),
                 result.value.credit_spread)

\* A pricing returned in which the three spreads are nonzero and the
\* break-even rate is negative: nothing floored it.
C1_Witness ==
    /\ BreakEvenDone
    /\ result.status = "ok"
    /\ ~FIsZero(result.value.operational_spread)
    /\ ~FIsZero(result.value.credit_spread)
    /\ ~FIsZero(result.value.financial_spread)
    /\ FLt(result.value.break_even_rate, Zero)

\* The arguments of a pricing call that violate a precondition of section 4.1.
InvalidPricingArgs ==
    \/ args.loan_amount <= 0
    \/ args.pd_1year <= 0 \/ args.pd_1year >= 1000
    \/ args.lgd_rate < 0 \/ args.lgd_rate > 1000
    \/ args.duration_years <= 0
    \/ args.capital_ratio < 0 \/ args.capital_ratio > 1000

\* C2: a pricing call whose principal, pd_1y, lgd, duration_years or
\* capital_ratio is out of its domain fails with InvalidInputError and returns
\* no PricingBreakdown.
C2_InvalidInputRejected ==
    BreakEvenDone /\ InvalidPricingArgs => result.status = "InvalidInputError"

\* The periods per year of the call's payment_frequency.
ArgPeriodsPerYear == Frequency(args.payment_frequency)[1]

\* The number of iterations the generator's loop makes for the call's arguments.
ArgTotalPayments == TotalPayments(FromRat(args.quarters, 4), ArgPeriodsPerYear)

StandardTypes ==
    {"fixed_amortizing", "variable_amortizing", "fixed_bullet", "variable_bullet"}

\* C3: generate_amortization_schedule fails with InvalidScheduleError when the
\* principal is zero or negative, when duration_years * periods_per_year is
\* below one half (a period count of zero or less), and when the structure is
\* custom and the entry list is empty.
C3_InvalidScheduleRejected ==
    /\ ScheduleDone /\ (args.loan_amount <= 0 \/ args.quarters * ArgPeriodsPerYear < 2)
          => result.status = "InvalidScheduleError"
    /\ CustomDone /\ Len(args.entries) = 0 => result.status = "InvalidScheduleError"

\* C4: a schedule generated for a standard structure from a positive
\* principal and at least one period ends with remaining balance zero.
C4_FinalBalanceZero ==
    /\ ScheduleDone
    /\ result.status = "ok"
    /\ args.loan_type \in StandardTypes
    /\ args.loan_amount > 0
    /\ ArgTotalPayments >= 1
    => /\ Len(result.value) >= 1
       /\ result.value[Len(result.value)].Remaining_Balance = Zero

\* a / b rounded to the nearest integer, halves to the even one (round()).
RoundHalfEven(a, b) ==
    IF 2 * (a % b) > b \/ (2 * (a % b) = b /\ (a \div b) % 2 = 1)
    THEN (a \div b) + 1 ELSE a \div b

\* C5: in every generated schedule the k-th row carries Payment_Number k, for
\* k from 1 to N: N = total_periods = round(duration_years * periods_per_year)
\* for a standard structure, the number of entries for custom.
C5_PaymentNumbersSequential ==
    /\ (/\ ScheduleDone
        /\ result.status = "ok"
        /\ args.loan_type \in StandardTypes
        /\ args.loan_amount > 0
        /\ args.quarters > 0)
       => /\ Len(result.value) = RoundHalfEven(args.quarters * ArgPeriodsPerYear, 4)
          /\ \A k \in 1..Len(result.value) : result.value[k].Payment_Number = k
    /\ CustomDone /\ result.status = "ok" =>
          /\ Len(result.value) = Len(args.entries)
          /\ \A k \in 1..Len(result.value) : result.value[k].Payment_Number = k

\* The rows of every generated schedule are numbered 1, 2, ... in row order,
\* as many as the loop has iterations (standard) or as there are entries.
RowsNumberedInOrder ==
    /\ ScheduleDone /\ result.status = "ok" =>
          /\ Len(result.value) =
                IF args.loan_type \in StandardTypes /\ ArgTotalPayments > 0
                THEN ArgTotalPayments ELSE 0
          /\ \A k \in 1..Len(result.value) : result.value[k].Payment_Number = k
    /\ CustomDone /\ result.status = "ok" =>
          /\ Len(result.value) = Len(args.entries)
          /\ \A k \in 1..Len(result.value) : result.value[k].Payment_Number = k

\* C6: a standard schedule of a positive principal and a positive duration
\* has round(duration_years * periods_per_year) periods.
C6_TotalPeriodsRounded ==
    /\ ScheduleDone
    /\ result.status = "ok"
    /\ args.loan_type \in StandardTypes
    /\ args.loan_amount > 0
    /\ args.quarters > 0
    => Len(result.value) = RoundHalfEven(args.quarters * ArgPeriodsPerYear, 4)

\* The periodic rate section 4.2 gives the call's structure.
ArgPeriodicRate ==
    IF args.loan_type \in {"fixed_amortizing", "fixed_bullet"}
    THEN FDiv(args.annual_rate, FromInt(ArgPeriodsPerYear))
    ELSE FDiv(FAdd(risk_free_rate, args.variable_spread), FromInt(ArgPeriodsPerYear))

\* C7: in a bullet schedule of n periods every period before the last has
\* principal 0, interest = principal * periodic rate, payment = interest and
\* balance = the principal; the last has principal = the principal, the same
\* interest, payment = interest + principal and balance exactly 0.
C7_BulletRows ==
    /\ ScheduleDone
    /\ result.status = "ok"
    /\ args.loan_type \in {"fixed_bullet", "variable_bullet"}
    => \A k \in 1..Len(result.value) :
          /\ result.value[k].Interest = FMul(FromInt(args.loan_amount), ArgPeriodicRate)
          /\ IF k < Len(result.value)
             THEN /\ result.value[k].Principal = Zero
                  /\ result.value[k].Payment = result.value[k].Interest
                  /\ result.value[k].Remaining_Balance = FromInt(args.loan_amount)
             ELSE /\ result.value[k].Principal = FromInt(args.loan_amount)
                  /\ result.value[k].Payment =
                        FAdd(result.value[k].Interest, FromInt(args.loan_amount))
                  /\ result.value[k].Remaining_Balance = Zero

\* A variable bullet schedule of twelve periods with a positive principal.
C7_Witness ==
    /\ ScheduleDone
    /\ result.status = "ok"
    /\ args.loan_type = "variable_bullet"
    /\ args.loan_amount > 0
    /\ Len(result.value) = 12
    /\ ~FIsZero(result.value[1].Interest)

RECURSIVE SumPrincipal(_, _)
SumPrincipal(schedule, k) ==
    IF k > Len(schedule) THEN Zero
    ELSE FAdd(schedule[k].Principal, SumPrincipal(schedule, k + 1))

FAbs(x) == <<Abs(x[1]), x[2]>>

\* The tolerance of C8: agreement in half the bits of the significand.
RelativeTolerance == <<Pow2(MantBits - 1), -(MantBits - 1) - (MantBits \div 2)>>

\* C8: in a fixed amortizing schedule generated from a positive principal and
\* at least one period the principal components sum to the principal within
\* the relative tolerance.
C8_PrincipalSumsToLoan ==
    /\ ScheduleDone
    /\ result.status = "ok"
    /\ args.loan_type = "fixed_amortizing"
    /\ args.loan_amount > 0
    /\ ArgTotalPayments >= 1
    => FLe(FAbs(FSub(SumPrincipal(result.value, 1), FromInt(args.loan_amount))),
           FMul(RelativeTolerance, FromInt(args.loan_amount)))

\* The entries in ascending date order (every order of those of equal date).
DateAscending(entries) ==
    LET n == Len(entries)
    IN  {[j \in 1..n |-> entries[f[j]]] :
            f \in {g \in [1..n -> 1..n] :
                     /\ \A a, b \in 1..n : a # b => g[a] # g[b]
                     /\ \A a, b \in 1..n :
                           a < b => entries[g[a]].Date <= entries[g[b]].Date}}

\* C9: whatever the order in which the entries are handed over, the custom
\* schedule is the one generated for the entries in ascending date order.
C9_SortedBeforeAccrual ==
    CustomDone =>
        result \in {generate_custom_schedule(
                        DataFrame(asc, args.frame.has_saldo, args.frame.saldo),
                        args.annual_rate, args.now) :
                    asc \in DateAscending(args.entries)}

\* The rating the table of section 4.1 gives a PD of k / 10000, k >= 0.
RatingOf(k) ==
    IF k < 15 THEN "AAA"
    ELSE IF k < 35 THEN "AA"
    ELSE IF k < 75 THEN "A"
    ELSE IF k < 175 THEN "BBB"
    ELSE IF k < 375 THEN "BB"
    ELSE IF k < 750 THEN "B"
    ELSE "CCC"

\* C10: get_rating_from_pd returns for every PD, never raises, and gives a
\* PD >= 0 the label of the bucket [lower, upper) that holds it, a boundary
\* belonging to the bucket above it, and CCC from 0.075 on (PD >= 1 included).
C10_RatingBuckets ==
    RatingDone =>
        /\ result.status = "ok"
        /\ result.value.rating \in {"AAA", "AA", "A", "BBB", "BB", "B", "CCC"}
        /\ args.pd >= 0 => result.value.rating = RatingOf(args.pd)

\* The PD 0.0035, the boundary between AA and A, was rated A.
C10_Witness ==
    /\ RatingDone
    /\ args.pd = 35
    /\ result.value.rating = "A"

\* What calculate_break_even_rate returns for the arguments of the call in
\* progress with pd_1year replaced by p / 1000 and the risk-free rate rfr.
PricingAt(rfr, p) ==
    calculate_break_even_rate(rfr, args.loan_amount, args.duration_years, Lit3(p),
                              Lit3(args.operational_costs_pct),
                              Lit3(args.funding_spread), Lit3(args.equity_cost),
                              Lit3(args.capital_ratio), Lit3(args.lgd_rate))

\* The PDs, in units of 1/1000, a valid call's result is compared with.
MonotonePds == {1, 10, 11, 499, 500, 501, 999}

\* C11: for a valid pricing call and every PD p in (0, 1) not below its
\* pd_1year, the pricing of the same arguments at p has a break_even_rate, a
\* cumulative_pd and an expected_loss not below those returned.
C11_MonotoneInPd ==
    BreakEvenDone /\ ~InvalidPricingArgs =>
        /\ result.status = "ok"
        /\ \A p \in MonotonePds :
              p >= args.pd_1year =>
                 /\ PricingAt(risk_free_rate, p).status = "ok"
                 /\ FLe(result.value.break_even_rate,
                        PricingAt(risk_free_rate, p).value.break_even_rate)
                 /\ FLe(result.value.cumulative_pd,
                        PricingAt(risk_free_rate, p).value.cumulative_pd)
                 /\ FLe(result.value.expected_loss,
                        PricingAt(risk_free_rate, p).value.expected_loss)

\* A valid pricing at pd 0.01 over three years with a positive LGD returned,
\* and the pricing at pd 0.011 has a strictly greater break_even_rate.
C11_Witness ==
    /\ BreakEvenDone
    /\ ~InvalidPricingArgs
    /\ args.pd_1year = 10
    /\ args.duration_years = 3
    /\ args.lgd_rate = 450
    /\ FLt(result.value.break_even_rate,
           PricingAt(risk_free_rate, 11).value.break_even_rate)

\* C12: in every state, whatever operations ran before and however far the
\* clock advanced, the risk-free rate is 0.03, and what a pricing call returns
\* (or raises) is the value of calculate_break_even_rate at its arguments and
\* the rate 0.03: two calls with the same arguments return the same fields.
C12_DeterministicPricing ==
    /\ risk_free_rate = FromRat(3, 100)
    /\ BreakEvenDone => result = PricingAt(FromRat(3, 100), args.pd_1year)

\* A pricing returned after the clock advanced, that is after a schedule was
\* generated or time passed since the calculator was built.
C12_Witness ==
    /\ BreakEvenDone
    /\ result.status = "ok"
    /\ clock = MaxClock
    /\ ~InvalidPricingArgs

\* The days between two periods of the call's payment_frequency.
ArgDaysBetween == Frequency(args.payment_frequency)[2]

\* C13: all due dates of a generated standard schedule are offsets of one
\* instant, the clock's reading when the generation began: period k is due
\* k * days_between days after it, and consecutive due dates are exactly
\* days_between days apart, though the clock advances during the generation.
C13_NowReadOnce ==
    ScheduleDone /\ result.status = "ok" /\ args.loan_amount > 0 =>
        /\ \A k \in 1..Len(result.value) :
              result.value[k].Date = args.now + k * ArgDaysBetween * DayTicks
        /\ \A k \in 2..Len(result.value) :
              result.value[k].Date - result.value[k - 1].Date
                  = ArgDaysBetween * DayTicks

\* The balance remaining before period k of the schedule returned.
BalanceBefore(k) ==
    IF k = 1 THEN FromInt(args.loan_amount)
    ELSE result.value[k - 1].Remaining_Balance

VariableAmortizingDone ==
    /\ ScheduleDone
    /\ result.status = "ok"
    /\ args.loan_type = "variable_amortizing"
    /\ args.loan_amount > 0
    /\ ArgTotalPayments >= 1

\* In a variable amortizing schedule of n periods the payment of period k is
\* the level payment of the balance before it over n - k + 1 periods at the
\* rate (risk_free_rate + variable_spread) / periods_per_year, its interest
\* the balance times the rate, its principal payment - interest, and the
\* balance after it is below the balance before it.
VariableRowsRecomputed ==
    VariableAmortizingDone =>
        \A k \in 1..Len(result.value) :
           /\ result.value[k].Payment =
                 AnnuityPayment(BalanceBefore(k), ArgPeriodicRate,
                                Len(result.value) - k + 1)
           /\ result.value[k].Interest = FMul(BalanceBefore(k), ArgPeriodicRate)
           /\ result.value[k].Principal =
                 FSub(result.value[k].Payment, result.value[k].Interest)
           /\ FLt(result.value[k].Remaining_Balance, BalanceBefore(k))

\* C14: a variable amortizing schedule recomputes each period's payment from
\* the balance left and the periods left (VariableRowsRecomputed), and the
\* principal component of its last period is the whole balance left.
C14_VariableAmortizing ==
    /\ VariableRowsRecomputed
    /\ VariableAmortizingDone =>
          result.value[Len(result.value)].Principal = BalanceBefore(Len(result.value))

\* The balance outstanding before the first entry: the explicit starting
\* balance when one is supplied, else the sum of the entries' amounts.
OpeningBalance ==
    IF args.frame.has_saldo THEN Amount(args.frame.saldo)
    ELSE SumCapitale(args.frame.rows, Len(args.frame.rows))

\* The balance after entry k when every entry reduces it by its amount.
RECURSIVE BalanceAfter(_)
BalanceAfter(k) ==
    IF k = 0 THEN OpeningBalance
    ELSE FSub(BalanceAfter(k - 1), Amount(args.frame.rows[k].Capitale))

\* The days elapsed before entry k: since the previous entry, or since now
\* (whole days) for the first.
DaysElapsed(k) ==
    IF k = 1 THEN (args.frame.rows[1].Date * DayTicks - args.now) \div DayTicks
    ELSE args.frame.rows[k].Date - args.frame.rows[k - 1].Date

\* C15: row k of a custom schedule has interest = balance before entry k *
\* annual_rate * days elapsed / 365, principal = the entry's amount, payment =
\* principal + interest and remaining balance = the balance before minus the
\* principal, the balance before the first entry being the opening balance;
\* with the default opening balance the last remaining balance is 0.
C15_CustomRows ==
    CustomDone /\ result.status = "ok" =>
        /\ \A k \in 1..Len(result.value) :
              /\ result.value[k].Interest =
                    FMul(FMul(BalanceAfter(k - 1), args.annual_rate),
                         FDiv(FromInt(DaysElapsed(k)), FromInt(365)))
              /\ result.value[k].Principal = Amount(args.frame.rows[k].Capitale)
              /\ result.value[k].Payment =
                    FAdd(result.value[k].Principal, result.value[k].Interest)
              /\ result.value[k].Remaining_Balance = BalanceAfter(k)
        /\ (~args.frame.has_saldo /\ Len(result.value) >= 1) =>
              result.value[Len(result.value)].Remaining_Balance = Zero

\* With the default opening balance and entries of whole euros, every
\* remaining balance is the balance before minus the amount, and the last is 0.
CustomRowsOfWholeAmounts ==
    (/\ CustomDone
     /\ result.status = "ok"
     /\ ~args.frame.has_saldo
     /\ \A k \in 1..Len(args.entries) : args.entries[k].Capitale % 10 = 0)
    => /\ \A k \in 1..Len(result.value) :
             result.value[k].Remaining_Balance = BalanceAfter(k)
       /\ Len(result.value) >= 1 =>
             result.value[Len(result.value)].Remaining_Balance = Zero

\* The clock readings of the loop iterations of the call in progress.
ArgNows ==
    [k \in 1..ArgTotalPayments |->
        IF args.tickAt # 0 /\ k >= args.tickAt THEN args.now + 1 ELSE args.now]

\* What generate_amortization_schedule returns for the arguments of the call
\* in progress with annual_rate replaced, at the same clock readings.
ScheduleAt(annual_rate) ==
    generate_amortization_schedule(risk_free_rate, args.loan_amount, annual_rate,
                                   FromRat(args.quarters, 4), args.payment_frequency,
                                   args.loan_type, args.variable_spread, NoFrame,
                                   ArgNows)

\* schedule_df['Interest'].sum()
RECURSIVE TotalInterest(_, _)
TotalInterest(schedule, k) ==
    IF k = 0 THEN Zero ELSE FAdd(TotalInterest(schedule, k - 1), schedule[k].Interest)

\* commercial_margin = total_interest - break_even_interest + total_commissions
CommercialMargin(schedule_df, break_even_schedule, total_commissions) ==
    FAdd(FSub(TotalInterest(schedule_df, Len(schedule_df)),
              TotalInterest(break_even_schedule, Len(break_even_schedule))),
         total_commissions)

\* Fees of the margin computation.
TotalCommissions == {Zero, FromInt(1500), FromRat(1, 10)}

\* C16: what a variable amortizing or variable bullet call returns is what it
\* returns for every other annual_rate, and the commercial margin computed
\* from it and from the schedule at another rate is the fees.
C16_VariableIgnoresAnnualRate ==
    ScheduleDone /\ args.loan_type \in {"variable_amortizing", "variable_bullet"} =>
        \A ar \in AnnualRates \ {args.annual_rate} :
           LET other == ScheduleAt(ar)
           IN  /\ other = result
               /\ (result.status = "ok" /\ Len(result.value) >= 1) =>
                     \A fees \in TotalCommissions :
                        CommercialMargin(result.value, other.value, fees) = fees

\* A variable amortizing schedule of twelve periods with interest was
\* generated at the annual rate 0.12.
C16_Witness ==
    /\ ScheduleDone
    /\ result.status = "ok"
    /\ args.loan_type = "variable_amortizing"
    /\ args.loan_amount > 0
    /\ args.annual_rate = Lit3(120)
    /\ Len(result.value) = 12
    /\ ~FIsZero(result.value[1].Interest)

\* The amounts of the first k entries, in tenths of a euro.
RECURSIVE CumulativeRepaid(_)
CumulativeRepaid(k) ==
    IF k = 0 THEN 0 ELSE CumulativeRepaid(k - 1) + args.frame.rows[k].Capitale

\* The opening balance in tenths of a euro, as the entries state it.
OpeningTenths ==
    IF args.frame.has_saldo THEN args.frame.saldo
    ELSE CumulativeRepaid(Len(args.frame.rows))

\* The balance a row of the schedule returned starts from: the opening
\* balance, or the remaining balance the previous row reports.
CarriedBalance(k) ==
    IF k = 1 THEN OpeningBalance ELSE result.value[k - 1].Remaining_Balance

====
